---------------------------- MODULE Spec2Model ----------------------------
(***************************************************************************)
(* Model of adljack's player layer (sources/common.cc): the process-wide   *)
(* active player, the real-time MIDI dispatch and audio generation, and    *)
(* the control thread's dynamic reconfigurations, all serialised by        *)
(* player_mutex.                                                           *)
(*                                                                         *)
(* Two threads run once initialize_player has succeeded: the real-time     *)
(* thread (play_midi, generate_outputs) and the control thread (the three  *)
(* player_dynamic operations).  Each call is cut into steps at its lock    *)
(* operations, so that every interleaving the mutex allows is explored.    *)
(***************************************************************************)
EXTENDS Integers, Sequences, FiniteSets, TLC

\* ------------------------------ bounds --------------------------------

\* longest MIDI message handed to play_midi
MaxLen == 3
\* largest frame count handed to generate_outputs
MaxFrames == 2
\* largest buffer stride handed to generate_outputs
MaxStride == 2
\* largest chip count the backend accepts
MaxChips == 2
\* number of emulators the backend offers (ids 0 .. NumEmulators-1)
NumEmulators == 2

\* ------------------------------ domains -------------------------------

Channels == 0 .. 15

\* data bytes used in messages: zero, a 7-bit value and a byte with the
\* high bit set
DataBytes == {0, 64, 200}

\* status bytes: two high nibbles below 0x8, every nibble 0x8..0xF, on the
\* first and the last channel
StatusBytes == {16 * h + c : h \in {0, 7} \cup (8 .. 15), c \in {0, 15}}

RECURSIVE MessagesOfLen(_)
MessagesOfLen(n) ==
    IF n = 0 THEN {<<>>}
    ELSE IF n = 1 THEN {<<s>> : s \in StatusBytes}
    ELSE {Append(m, d) : m \in MessagesOfLen(n - 1), d \in DataBytes}

\* every message of at most MaxLen bytes over the bytes above
AllMessages == UNION {MessagesOfLen(n) : n \in 0 .. MaxLen}

\* the messages the real-time thread sends while the control thread
\* reconfigures: a note-on, a program change, a system message, a
\* truncated note-on and an empty message
FewMessages == {<<>>, <<144, 64, 127>>, <<193, 200>>, <<240, 1>>, <<144, 64>>}

\* audio sample values (floats in the code)
Samples == {0, 1}

\* bank files known to the backend; any other path fails to load
GoodBanks == {"good.wopl"}
BankArgs == {"nullptr", "good.wopl", "bad.wopl"}

SampleRates == {44100, 48000}

\* generation times measured around the render call, in microseconds
GenMicros == {0, 1}

\* ------------------------------- state --------------------------------

VARIABLES
    player,              \* ::player: "nullptr" or "handle"
    player_bank_file,    \* ::player_bank_file
    player_sample_rate,  \* ::player_sample_rate
    player_emulator_id,  \* ::player_emulator_id
    player_mutex,        \* TRUE while player_mutex is locked
    channel_map,         \* channel_map[c].gm for c in 0..15
    dcfilter,            \* dcfilter[0..1]: state of each DC filter
    lvmonitor,           \* lvmonitor[0..1]: state of each level monitor
    lvcurrent,           \* ::lvcurrent[0..1]
    cpuratio,            \* ::cpuratio
    adl,                 \* the backend instance behind ::player
    last_call,           \* the last operation invoked on the backend
    init,                \* initialize_player: arguments and outcome
    rt_pc,               \* real-time thread: position in the current call
    rt_owns,             \* whether the current call's try-lock got the mutex
    msg,                 \* play_midi: the message (msg[i] of the code is msg[i+1])
    rt_calls,            \* play_midi: backend event operations invoked by the call
    map0,                \* play_midi: channel_map when the call started
    left, right,         \* generate_outputs: the caller's buffers
    nframes, stride,     \* generate_outputs: its arguments
    t_gen,               \* generate_outputs: t_after_gen - t_before_gen
    ctl_pc,              \* control thread: position in the current call
    ctl_op,              \* control thread: the operation called
    ctl_arg,             \* control thread: its argument
    ctl_trace,           \* control thread: lock and backend steps of the call so far
    ctl_rc,              \* control thread: what the backend mutation returned
    ctl_ret,             \* control thread: what the call returned to its caller
    ctl_saved            \* control thread: registry emulator id and bank at call

registry == <<player, player_bank_file, player_sample_rate, player_emulator_id>>
conditioner == <<dcfilter, lvmonitor, lvcurrent, cpuratio>>
backend == <<adl, last_call>>
rt_midi == <<msg, rt_calls, map0>>
rt_audio == <<left, right, nframes, stride, t_gen>>
rt_vars == <<rt_pc, rt_owns, rt_midi, rt_audio>>
ctl_vars == <<ctl_pc, ctl_op, ctl_arg, ctl_trace, ctl_rc, ctl_ret, ctl_saved>>

vars == <<registry, player_mutex, channel_map, conditioner, backend, init,
          rt_vars, ctl_vars>>

\* ---------------------- the player backend adapter ---------------------
\* Player_Traits<Pt> wraps the synthesis library; neither is part of
\* common.cc.  A backend instance is its selected emulator, its loaded
\* bank and its chip count; an operation returns a negative code and
\* leaves the instance as it was when it fails.

\* Traits::init: a fresh instance
Traits_init == [emulator |-> 0, bank |-> "default", nchips |-> 1]

\* Traits::switch_emulator: < 0 when the id is out of range
switch_emulator_rc(h, id) == IF id >= 0 /\ id < NumEmulators THEN 0 ELSE -1
switch_emulator(h, id) ==
    IF switch_emulator_rc(h, id) < 0 THEN h ELSE [h EXCEPT !.emulator = id]

\* Traits::open_bank_file: < 0 when the file cannot be loaded
open_bank_file_rc(h, path) == IF path \in GoodBanks THEN 0 ELSE -1
open_bank_file(h, path) ==
    IF open_bank_file_rc(h, path) < 0 THEN h ELSE [h EXCEPT !.bank = path]

\* Traits::set_num_chips: < 0 when the count is not in 1 .. MaxChips
set_num_chips_rc(h, n) == IF n >= 1 /\ n <= MaxChips THEN 0 ELSE -1
set_num_chips(h, n) ==
    IF set_num_chips_rc(h, n) < 0 THEN h ELSE [h EXCEPT !.nchips = n]

\* a call on the backend, as recorded in last_call
Call(who, op) == [who |-> who, op |-> op]

\* --------------------------- initialization ---------------------------

\* the globals as the program starts (lines 17-28)
BootRegistry ==
    [player |-> "nullptr", bank_file |-> "nullptr", sample_rate |-> 0,
     emulator_id |-> 0]

BootFilters == [i \in 0 .. 1 |-> [cutoff |-> 0, x1 |-> 0]]
BootMonitors == [i \in 0 .. 1 |-> [release |-> 0, level |-> 0]]

InitArgs(SR) ==
    [sample_rate : SR, nchip : 0 .. MaxChips + 1, bankfile : BankArgs,
     emulator : -1 .. NumEmulators]

\* the same call storing the emulator id before switching the emulator
initialize_player_result_id_first(a, inst) ==
    LET h0 == Traits_init
        emu_ok == a.emulator < 0 \/ switch_emulator_rc(h0, a.emulator) >= 0
        h1 == IF a.emulator >= 0 THEN switch_emulator(h0, a.emulator) ELSE h0
        bank_ok == a.bankfile = "nullptr" \/ open_bank_file_rc(h1, a.bankfile) >= 0
        h2 == IF a.bankfile # "nullptr" THEN open_bank_file(h1, a.bankfile) ELSE h1
        chips_ok == set_num_chips_rc(h2, a.nchip) >= 0
        h3 == set_num_chips(h2, a.nchip)
        threw == IF ~inst THEN "init"
                 ELSE IF ~emu_ok THEN "switch_emulator"
                 ELSE IF ~bank_ok THEN "open_bank_file"
                 ELSE IF ~chips_ok THEN "set_num_chips"
                 ELSE "none"
        last == IF threw = "init" THEN "none"
                ELSE IF threw = "switch_emulator" THEN "switch_emulator"
                ELSE IF threw = "open_bank_file" THEN "open_bank_file"
                ELSE "set_num_chips"
    IN  [threw |-> threw,
         registry |->
            [player |-> IF inst THEN "handle" ELSE BootRegistry.player,
             sample_rate |-> IF inst THEN a.sample_rate
                             ELSE BootRegistry.sample_rate,
             \* the id is stored before the backend is asked
             emulator_id |-> IF inst /\ a.emulator >= 0
                             THEN a.emulator
                             ELSE BootRegistry.emulator_id,
             bank_file |-> IF inst /\ emu_ok /\ a.bankfile # "nullptr" /\ bank_ok
                           THEN a.bankfile
                           ELSE BootRegistry.bank_file],
         adl |-> IF threw = "init" THEN Traits_init
                 ELSE IF threw = "switch_emulator" THEN h1
                 ELSE IF threw = "open_bank_file" THEN h2
                 ELSE h3,
         last_call |-> Call("init", last),
         dcfilter |->
            IF threw = "none"
            THEN [i \in 0 .. 1 |-> [cutoff |-> a.sample_rate, x1 |-> 0]]
            ELSE BootFilters,
         lvmonitor |->
            IF threw = "none"
            THEN [i \in 0 .. 1 |-> [release |-> a.sample_rate, level |-> 0]]
            ELSE BootMonitors]

\* generic_initialize_player called with arguments a on the boot state;
\* inst tells whether Traits::init returned an instance.  The result names
\* the step that threw ("none" when the call returned) and the globals
\* and the backend instance the call leaves behind.
initialize_player_result(a, inst) ==
    LET h0 == Traits_init
        emu_ok == a.emulator < 0 \/ switch_emulator_rc(h0, a.emulator) >= 0
        h1 == IF a.emulator >= 0 THEN switch_emulator(h0, a.emulator) ELSE h0
        bank_ok == a.bankfile = "nullptr" \/ open_bank_file_rc(h1, a.bankfile) >= 0
        h2 == IF a.bankfile # "nullptr" THEN open_bank_file(h1, a.bankfile) ELSE h1
        chips_ok == set_num_chips_rc(h2, a.nchip) >= 0
        h3 == set_num_chips(h2, a.nchip)
        threw == IF ~inst THEN "init"                            \* line 120
                 ELSE IF ~emu_ok THEN "switch_emulator"           \* line 126
                 ELSE IF ~bank_ok THEN "open_bank_file"           \* line 137
                 ELSE IF ~chips_ok THEN "set_num_chips"           \* line 143
                 ELSE "none"
        last == IF threw = "init" THEN "none"
                ELSE IF threw = "switch_emulator" THEN "switch_emulator"
                ELSE IF threw = "open_bank_file" THEN "open_bank_file"
                ELSE "set_num_chips"
    IN  [threw |-> threw,
         registry |->
            [player |-> IF inst THEN "handle" ELSE BootRegistry.player,
             sample_rate |-> IF inst THEN a.sample_rate
                             ELSE BootRegistry.sample_rate,
             \* line 127, reached when the switch did not throw
             emulator_id |-> IF inst /\ a.emulator >= 0 /\ emu_ok
                             THEN a.emulator
                             ELSE BootRegistry.emulator_id,
             \* line 139, reached when the bank load did not throw
             bank_file |-> IF inst /\ emu_ok /\ a.bankfile # "nullptr" /\ bank_ok
                           THEN a.bankfile
                           ELSE BootRegistry.bank_file],
         adl |-> IF threw = "init" THEN Traits_init
                 ELSE IF threw = "switch_emulator" THEN h1
                 ELSE IF threw = "open_bank_file" THEN h2
                 ELSE h3,
         last_call |-> Call("init", last),
         \* lines 146-149, reached when nothing threw
         dcfilter |->
            IF threw = "none"
            THEN [i \in 0 .. 1 |-> [cutoff |-> a.sample_rate, x1 |-> 0]]
            ELSE BootFilters,
         lvmonitor |->
            IF threw = "none"
            THEN [i \in 0 .. 1 |-> [release |-> a.sample_rate, level |-> 0]]
            ELSE BootMonitors]

\* the state both threads' variables have between calls
RtIdle ==
    /\ rt_pc = "idle" /\ rt_owns = FALSE
    /\ msg = <<>> /\ rt_calls = <<>> /\ map0 = channel_map
    /\ left = <<>> /\ right = <<>> /\ nframes = 0 /\ stride = 0 /\ t_gen = 0

CtlIdle ==
    /\ ctl_pc = "idle" /\ ctl_op = "none" /\ ctl_arg = 0 /\ ctl_trace = <<>>
    /\ ctl_rc = 0 /\ ctl_ret = "pending"
    /\ ctl_saved = [emulator_id |-> player_emulator_id,
                    bank_file |-> player_bank_file]

\* the globals other than the registry and the filters as the program
\* starts (lines 22-24, 28)
BootRest ==
    /\ player_mutex = FALSE
    /\ channel_map = [c \in Channels |-> 0]
    /\ lvcurrent = [i \in 0 .. 1 |-> 0]
    /\ cpuratio = [num |-> 0, den |-> 1]

\* the program as it starts, before initialize_player
Boot ==
    /\ player = BootRegistry.player
    /\ player_bank_file = BootRegistry.bank_file
    /\ player_sample_rate = BootRegistry.sample_rate
    /\ player_emulator_id = BootRegistry.emulator_id
    /\ dcfilter = BootFilters /\ lvmonitor = BootMonitors
    /\ adl = Traits_init /\ last_call = Call("none", "none")
    /\ init = [status |-> "none", threw |-> "none",
               args |-> [sample_rate |-> 0, nchip |-> 0, bankfile |-> "nullptr",
                         emulator |-> -1]]
    /\ BootRest /\ RtIdle /\ CtlIdle

\* generic_initialize_player (lines 110-150), called once at startup
generic_initialize_player(SR) ==
    /\ init.status = "none"
    /\ \E a \in InitArgs(SR), inst \in BOOLEAN :
        LET r == initialize_player_result(a, inst) IN
        /\ player' = r.registry.player
        /\ player_bank_file' = r.registry.bank_file
        /\ player_sample_rate' = r.registry.sample_rate
        /\ player_emulator_id' = r.registry.emulator_id
        /\ adl' = r.adl
        /\ last_call' = r.last_call
        /\ dcfilter' = r.dcfilter
        /\ lvmonitor' = r.lvmonitor
        /\ init' = [status |-> IF r.threw = "none" THEN "ok" ELSE "error",
                    threw |-> r.threw, args |-> a]
    /\ UNCHANGED <<player_mutex, channel_map, lvcurrent, cpuratio, rt_vars,
                   ctl_vars>>

\* the arguments of the startup the threads are explored from: sample rate
\* 44100, 2 chips, default bank, emulator 0
ReadyArgs ==
    {[sample_rate |-> 44100, nchip |-> 2, bankfile |-> "nullptr", emulator |-> 0]}

\* the program once initialize_player has returned
Init ==
    \E a \in ReadyArgs :
        LET r == initialize_player_result(a, TRUE) IN
        /\ r.threw = "none"
        /\ player = r.registry.player
        /\ player_bank_file = r.registry.bank_file
        /\ player_sample_rate = r.registry.sample_rate
        /\ player_emulator_id = r.registry.emulator_id
        /\ adl = r.adl
        /\ last_call = r.last_call
        /\ dcfilter = r.dcfilter
        /\ lvmonitor = r.lvmonitor
        /\ init = [status |-> "ok", threw |-> "none", args |-> a]
        /\ BootRest /\ RtIdle /\ CtlIdle

\* ------------------------- play_midi (lines 164-218) -------------------

Nothing(cm) == [calls |-> <<>>, map |-> cm]
Event(e, cm) == [calls |-> <<e>>, map |-> cm]

\* the same case passing the velocity byte as the key
case_note_off_velocity(m, channel, cm) ==
    IF Len(m) < 3 THEN Nothing(cm)
    ELSE Event(<<"rt_note_off", channel, m[3]>>, cm)

\* the same case asking for two bytes only: a truncated message passes
case_note_off_short(m, channel, cm) ==
    IF Len(m) < 2 THEN Nothing(cm)
    ELSE Event(<<"rt_note_off", channel, m[2]>>, cm)

\* case 0b1000 (lines 190-193), also the target of case 0b1001's fallthrough
case_note_off(m, channel, cm) ==
    IF Len(m) < 3 THEN Nothing(cm)
    ELSE Event(<<"rt_note_off", channel, m[2]>>, cm)

\* the same switch with a break closing case 0b1001: a note-on with
\* velocity 0 does nothing
case_note_on_break(m, channel, cm) ==
    IF Len(m) < 3 THEN Nothing(cm)
    ELSE IF m[3] # 0 THEN Event(<<"rt_note_on", channel, m[2], m[3]>>, cm)
    ELSE Nothing(cm)

\* case 0b1001 (lines 184-189)
case_note_on(m, channel, cm) ==
    IF Len(m) < 3 THEN Nothing(cm)
    ELSE IF m[3] # 0 THEN Event(<<"rt_note_on", channel, m[2], m[3]>>, cm)
    ELSE case_note_off(m, channel, cm)

\* the same case passing the program byte unmasked
case_program_change_unmasked(m, channel, cm) ==
    IF Len(m) < 2 THEN Nothing(cm)
    ELSE Event(<<"rt_program_change", channel, m[2]>>,
               [cm EXCEPT ![channel] = m[2]])

\* the same case indexing the map with the program instead of the channel
case_program_change_by_program(m, channel, cm) ==
    IF Len(m) < 2 THEN Nothing(cm)
    ELSE LET pgm == m[2] % 128 IN
         [calls |-> <<<<"rt_program_change", channel, pgm>>>>,
          map |-> [cm EXCEPT ![pgm % 16] = pgm]]

\* case 0b1100 (lines 206-212)
case_program_change(m, channel, cm) ==
    IF Len(m) < 2 THEN Nothing(cm)
    ELSE LET pgm == m[2] % 128 IN
         Event(<<"rt_program_change", channel, pgm>>,
               [cm EXCEPT ![channel] = pgm])

\* the same decoder without the test for system messages and with the
\* pitch-bend case labelled 0b1111
play_midi_decode_system_as_pitchbend(m, cm) ==
    IF Len(m) <= 0 THEN Nothing(cm)
    ELSE LET status == m[1]
             channel == status % 16
             hi == status \div 16
         IN  CASE hi = 9 -> case_note_on(m, channel, cm)
               [] hi = 8 -> case_note_off(m, channel, cm)
               [] hi = 10 ->
                    IF Len(m) < 3 THEN Nothing(cm)
                    ELSE Event(<<"rt_note_aftertouch", channel, m[2], m[3]>>, cm)
               [] hi = 13 ->
                    IF Len(m) < 2 THEN Nothing(cm)
                    ELSE Event(<<"rt_channel_aftertouch", channel, m[2]>>, cm)
               [] hi = 11 ->
                    IF Len(m) < 3 THEN Nothing(cm)
                    ELSE Event(<<"rt_controller_change", channel, m[2], m[3]>>, cm)
               [] hi = 12 -> case_program_change(m, channel, cm)
               [] hi = 15 ->
                    IF Len(m) < 3 THEN Nothing(cm)
                    ELSE Event(<<"rt_pitchbend_ml", channel, m[3], m[2]>>, cm)
               [] OTHER -> Nothing(cm)

\* lines 175-217: what a message does once the lock is owned: the backend
\* event operations invoked, in order, and the channel map afterwards
play_midi_decode(m, cm) ==
    IF Len(m) <= 0 THEN Nothing(cm)
    ELSE LET status == m[1] IN
         IF (status \div 16) * 16 = 240 THEN Nothing(cm)
         ELSE LET channel == status % 16
                  hi == status \div 16
              IN  CASE hi = 9 -> case_note_on(m, channel, cm)
                    [] hi = 8 -> case_note_off(m, channel, cm)
                    [] hi = 10 ->
                         IF Len(m) < 3 THEN Nothing(cm)
                         ELSE Event(<<"rt_note_aftertouch", channel, m[2], m[3]>>, cm)
                    [] hi = 13 ->
                         IF Len(m) < 2 THEN Nothing(cm)
                         ELSE Event(<<"rt_channel_aftertouch", channel, m[2]>>, cm)
                    [] hi = 11 ->
                         IF Len(m) < 3 THEN Nothing(cm)
                         ELSE Event(<<"rt_controller_change", channel, m[2], m[3]>>, cm)
                    [] hi = 12 -> case_program_change(m, channel, cm)
                    [] hi = 14 ->
                         IF Len(m) < 3 THEN Nothing(cm)
                         ELSE Event(<<"rt_pitchbend_ml", channel, m[3], m[2]>>, cm)
                    [] OTHER -> Nothing(cm)

\* play_midi is called with a message of M
play_midi_call(M) ==
    /\ player = "handle" /\ rt_pc = "idle"
    /\ \E m \in M : msg' = m
    /\ rt_pc' = "pm_lock"
    /\ map0' = channel_map
    /\ UNCHANGED <<registry, player_mutex, channel_map, conditioner, backend,
                   init, rt_owns, rt_calls, rt_audio, ctl_vars>>

\* the try-lock that waits for the mutex instead of giving up
play_midi_lock_blocking ==
    /\ rt_pc = "pm_lock"
    /\ ~player_mutex
    /\ player_mutex' = TRUE /\ rt_owns' = TRUE /\ rt_pc' = "pm_decode"
    /\ UNCHANGED <<registry, channel_map, conditioner, backend, init, rt_midi,
                   rt_audio, ctl_vars>>

\* the try-lock without the test of owns_lock: the call goes on either way
play_midi_lock_unchecked ==
    /\ rt_pc = "pm_lock"
    /\ rt_owns' = ~player_mutex
    /\ player_mutex' = TRUE
    /\ rt_pc' = "pm_decode"
    /\ UNCHANGED <<registry, channel_map, conditioner, backend, init, rt_midi,
                   rt_audio, ctl_vars>>

\* lines 171-173: try to lock; return at once when the mutex is taken
play_midi_try_lock ==
    /\ rt_pc = "pm_lock"
    /\ rt_owns' = ~player_mutex
    /\ player_mutex' = TRUE
    /\ rt_pc' = IF player_mutex THEN "pm_done" ELSE "pm_decode"
    /\ UNCHANGED <<registry, channel_map, conditioner, backend, init, rt_midi,
                   rt_audio, ctl_vars>>

\* the dispatch unlocking by hand after a backend call only: the early
\* returns and the breaks leave the mutex locked
play_midi_dispatch_leaks ==
    /\ rt_pc = "pm_decode"
    /\ LET r == play_midi_decode(msg, channel_map) IN
        /\ rt_calls' = r.calls
        /\ channel_map' = r.map
        /\ last_call' = IF r.calls = <<>> THEN last_call
                        ELSE Call("rt", r.calls[Len(r.calls)][1])
        /\ player_mutex' = IF rt_owns /\ r.calls # <<>> THEN FALSE
                           ELSE player_mutex
    /\ rt_pc' = "pm_done"
    /\ UNCHANGED <<registry, conditioner, adl, init, rt_owns, msg, map0,
                   rt_audio, ctl_vars>>

\* lines 175-218: decode and dispatch; the unique_lock unlocks the mutex
\* it owns as the call returns
play_midi_dispatch ==
    /\ rt_pc = "pm_decode"
    /\ LET r == play_midi_decode(msg, channel_map) IN
        /\ rt_calls' = r.calls
        /\ channel_map' = r.map
        /\ last_call' = IF r.calls = <<>> THEN last_call
                        ELSE Call("rt", r.calls[Len(r.calls)][1])
    /\ player_mutex' = IF rt_owns THEN FALSE ELSE player_mutex
    /\ rt_pc' = "pm_done"
    /\ UNCHANGED <<registry, conditioner, adl, init, rt_owns, msg, map0,
                   rt_audio, ctl_vars>>

\* --------------------- generate_outputs (lines 220-274) ----------------

\* the sample slots of a caller's buffer
BufIdx == 0 .. (MaxFrames - 1) * MaxStride

\* the silence loop writing slot i instead of slot i * stride
RECURSIVE silence_loop_unstrided(_, _, _, _)
silence_loop_unstrided(buf, i, n, st) ==
    IF i >= n THEN buf
    ELSE silence_loop_unstrided([buf EXCEPT ![i] = 0], i + 1, n, st)

\* lines 234-239, for one buffer: buf[i * stride] = 0 for i = 0 .. n-1
RECURSIVE silence_loop(_, _, _, _)
silence_loop(buf, i, n, st) ==
    IF i >= n THEN buf
    ELSE silence_loop([buf EXCEPT ![i * st] = 0], i + 1, n, st)

\* Traits::generate_format (line 248), for one buffer: frame i of the
\* rendered block f goes to slot i * stride
RECURSIVE generate_format(_, _, _, _, _)
generate_format(buf, f, i, n, st) ==
    IF i >= n THEN buf
    ELSE generate_format([buf EXCEPT ![i * st] = f[i]], f, i + 1, n, st)

Abs(x) == IF x < 0 THEN -x ELSE x
Max(a, b) == IF a >= b THEN a ELSE b

\* DcFilter::process: a DC blocker keeping the previous input sample
DcFilter_process(f, x) == [out |-> x - f.x1, state |-> [f EXCEPT !.x1 = x]]

\* VuMonitor::process: a peak follower, instant attack and stepwise release
VuMonitor_process(v, x) ==
    LET lv == Max(Abs(x), Max(v.level - 1, 0)) IN
    [out |-> lv, state |-> [v EXCEPT !.level = lv]]

\* lines 256-266: the post-processing loop from frame i on; s holds the
\* buffers, the filters, the monitors and the local lvcurrent
RECURSIVE process_loop(_, _, _, _)
process_loop(s, i, n, st) ==
    IF i >= n THEN s
    ELSE LET l == DcFilter_process(s.dcfilter[0], s.left[i * st])
             r == DcFilter_process(s.dcfilter[1], s.right[i * st])
             vl == VuMonitor_process(s.lvmonitor[0], l.out)
             vr == VuMonitor_process(s.lvmonitor[1], r.out)
         IN  process_loop(
                 [left |-> [s.left EXCEPT ![i * st] = l.out],
                  right |-> [s.right EXCEPT ![i * st] = r.out],
                  dcfilter |-> [s.dcfilter EXCEPT ![0] = l.state, ![1] = r.state],
                  lvmonitor |-> [s.lvmonitor EXCEPT ![0] = vl.state, ![1] = vr.state],
                  lvcurrent |-> [s.lvcurrent EXCEPT ![0] = vl.out, ![1] = vr.out]],
                 i + 1, n, st)

\* generate_outputs is called with n frames, a stride and the caller's
\* buffers, filled with whatever they held; lines 228-229 return for n = 0
generate_outputs_call(N, S, F) ==
    /\ player = "handle" /\ rt_pc = "idle"
    /\ \E n \in N, st \in S, fl \in F, fr \in F :
        /\ nframes' = n /\ stride' = st
        /\ left' = [j \in BufIdx |-> fl]
        /\ right' = [j \in BufIdx |-> fr]
        /\ rt_pc' = IF n <= 0 THEN "go_done" ELSE "go_lock"
    /\ UNCHANGED <<registry, player_mutex, channel_map, conditioner, backend,
                   init, rt_owns, rt_midi, t_gen, ctl_vars>>

\* the try-lock whose contended branch, the block silenced, goes on to the
\* post-processing instead of returning
generate_outputs_try_lock_no_return ==
    /\ rt_pc = "go_lock"
    /\ rt_owns' = ~player_mutex
    /\ player_mutex' = TRUE
    /\ IF player_mutex
       THEN /\ left' = silence_loop(left, 0, nframes, stride)
            /\ right' = silence_loop(right, 0, nframes, stride)
            /\ rt_pc' = "go_post"
       ELSE /\ UNCHANGED <<left, right>>
            /\ rt_pc' = "go_render"
    /\ UNCHANGED <<registry, channel_map, conditioner, backend, init, rt_midi,
                   nframes, stride, t_gen, ctl_vars>>

\* lines 232-241: try to lock; when the mutex is taken, silence the block
\* and return
generate_outputs_try_lock ==
    /\ rt_pc = "go_lock"
    /\ rt_owns' = ~player_mutex
    /\ player_mutex' = TRUE
    /\ IF player_mutex
       THEN /\ left' = silence_loop(left, 0, nframes, stride)
            /\ right' = silence_loop(right, 0, nframes, stride)
            /\ rt_pc' = "go_done"
       ELSE /\ UNCHANGED <<left, right>>
            /\ rt_pc' = "go_render"
    /\ UNCHANGED <<registry, channel_map, conditioner, backend, init, rt_midi,
                   nframes, stride, t_gen, ctl_vars>>

\* the render step without line 250: the lock lives to the end of the call
generate_outputs_render_keeps_lock(R) ==
    /\ rt_pc = "go_render"
    /\ \E fl \in [0 .. nframes - 1 -> R], fr \in [0 .. nframes - 1 -> R],
          d \in GenMicros :
        /\ left' = generate_format(left, fl, 0, nframes, stride)
        /\ right' = generate_format(right, fr, 0, nframes, stride)
        /\ t_gen' = d
    /\ last_call' = Call("rt", "generate_format")
    /\ rt_pc' = "go_post"
    /\ UNCHANGED <<registry, player_mutex, channel_map, conditioner, adl, init,
                   rt_owns, rt_midi, nframes, stride, ctl_vars>>

\* lines 243-250: render the block with samples of R, time the render,
\* unlock
generate_outputs_render(R) ==
    /\ rt_pc = "go_render"
    /\ \E fl \in [0 .. nframes - 1 -> R], fr \in [0 .. nframes - 1 -> R],
          d \in GenMicros :
        /\ left' = generate_format(left, fl, 0, nframes, stride)
        /\ right' = generate_format(right, fr, 0, nframes, stride)
        /\ t_gen' = d
    /\ last_call' = Call("rt", "generate_format")
    /\ player_mutex' = FALSE
    /\ rt_pc' = "go_post"
    /\ UNCHANGED <<registry, channel_map, conditioner, adl, init, rt_owns,
                   rt_midi, nframes, stride, ctl_vars>>

\* lines 252-273: filter and monitor the block, publish the levels and
\* the load ratio d_sec / (nframes / player_sample_rate)
generate_outputs_process ==
    /\ rt_pc = "go_post"
    /\ LET s == process_loop(
                    [left |-> left, right |-> right, dcfilter |-> dcfilter,
                     lvmonitor |-> lvmonitor, lvcurrent |-> lvcurrent],
                    0, nframes, stride)
       IN  /\ left' = s.left /\ right' = s.right
           /\ dcfilter' = s.dcfilter /\ lvmonitor' = s.lvmonitor
           /\ lvcurrent' = s.lvcurrent
    /\ cpuratio' = [num |-> t_gen * player_sample_rate,
                    den |-> 1000000 * nframes]
    /\ rt_pc' = "go_done"
    /\ UNCHANGED <<registry, player_mutex, channel_map, backend, init, rt_owns,
                   rt_midi, nframes, stride, t_gen, ctl_vars>>

\* play_midi or generate_outputs returns to the audio/MIDI callback
rt_return ==
    /\ rt_pc \in {"pm_done", "go_done"}
    /\ rt_pc' = "idle" /\ rt_owns' = FALSE
    /\ msg' = <<>> /\ rt_calls' = <<>> /\ map0' = channel_map
    /\ left' = <<>> /\ right' = <<>> /\ nframes' = 0 /\ stride' = 0
    /\ t_gen' = 0
    /\ UNCHANGED <<registry, player_mutex, channel_map, conditioner, backend,
                   init, ctl_vars>>

\* ------------- dynamic reconfiguration (lines 314-357) -----------------

\* a player_dynamic operation is called by the control thread
dynamic_call(op, A) ==
    /\ player = "handle" /\ ctl_pc = "idle"
    /\ \E a \in A : ctl_arg' = a
    /\ ctl_op' = op
    /\ ctl_pc' = "lock"
    /\ ctl_saved' = [emulator_id |-> player_emulator_id,
                     bank_file |-> player_bank_file]
    /\ UNCHANGED <<registry, player_mutex, channel_map, conditioner, backend,
                   init, rt_vars, ctl_trace, ctl_rc, ctl_ret>>

\* line 315
player_dynamic_set_chip_count_call(A) == dynamic_call("set_chip_count", A)
\* line 328
player_dynamic_set_emulator_call(A) == dynamic_call("set_emulator", A)
\* line 343
player_dynamic_load_bank_call(A) == dynamic_call("load_bank", A)

\* the lock_guard of lines 322, 335 and 350: wait until the mutex is free,
\* then lock it
dynamic_lock ==
    /\ ctl_pc = "lock"
    /\ ~player_mutex
    /\ player_mutex' = TRUE
    /\ ctl_trace' = Append(ctl_trace, "lock")
    /\ ctl_pc' = "panic"
    /\ UNCHANGED <<registry, channel_map, conditioner, backend, init, rt_vars,
                   ctl_op, ctl_arg, ctl_rc, ctl_ret, ctl_saved>>

\* the panic step with the lock's scope closed right after the panic
dynamic_panic_unlocks ==
    /\ ctl_pc = "panic"
    /\ last_call' = Call("ctl", "panic")
    /\ ctl_trace' = Append(ctl_trace, "panic")
    /\ ctl_pc' = "mutate"
    /\ player_mutex' = FALSE
    /\ UNCHANGED <<registry, channel_map, conditioner, adl, init, rt_vars,
                   ctl_op, ctl_arg, ctl_rc, ctl_ret, ctl_saved>>

\* Traits::panic of lines 323, 336 and 351
dynamic_panic ==
    /\ ctl_pc = "panic"
    /\ last_call' = Call("ctl", "panic")
    /\ ctl_trace' = Append(ctl_trace, "panic")
    /\ ctl_pc' = "mutate"
    /\ UNCHANGED <<registry, player_mutex, channel_map, conditioner, adl, init,
                   rt_vars, ctl_op, ctl_arg, ctl_rc, ctl_ret, ctl_saved>>

\* lines 324-325: set the chip count, whatever the backend answers, and
\* return nothing; the lock_guard unlocks
player_dynamic_set_chip_count_mutate ==
    /\ ctl_pc = "mutate" /\ ctl_op = "set_chip_count"
    /\ adl' = set_num_chips(adl, ctl_arg)
    /\ ctl_rc' = set_num_chips_rc(adl, ctl_arg)
    /\ last_call' = Call("ctl", "set_num_chips")
    /\ ctl_trace' = Append(ctl_trace, "set_num_chips")
    /\ ctl_ret' = "void"
    /\ player_mutex' = FALSE
    /\ ctl_pc' = "done"
    /\ UNCHANGED <<registry, channel_map, conditioner, init, rt_vars, ctl_op,
                   ctl_arg, ctl_saved>>

\* the same step storing the id whatever the backend answers
player_dynamic_set_emulator_mutate_unchecked ==
    /\ ctl_pc = "mutate" /\ ctl_op = "set_emulator"
    /\ adl' = switch_emulator(adl, ctl_arg)
    /\ ctl_rc' = switch_emulator_rc(adl, ctl_arg)
    /\ last_call' = Call("ctl", "switch_emulator")
    /\ ctl_trace' = Append(ctl_trace, "switch_emulator")
    /\ player_emulator_id' = ctl_arg
    /\ ctl_ret' = "void"
    /\ player_mutex' = FALSE
    /\ ctl_pc' = "done"
    /\ UNCHANGED <<player, player_bank_file, player_sample_rate, channel_map,
                   conditioner, init, rt_vars, ctl_op, ctl_arg, ctl_saved>>

\* lines 337-340: switch the emulator, store the id when the backend
\* accepted it, and return nothing; the lock_guard unlocks
player_dynamic_set_emulator_mutate ==
    /\ ctl_pc = "mutate" /\ ctl_op = "set_emulator"
    /\ adl' = switch_emulator(adl, ctl_arg)
    /\ ctl_rc' = switch_emulator_rc(adl, ctl_arg)
    /\ last_call' = Call("ctl", "switch_emulator")
    /\ ctl_trace' = Append(ctl_trace, "switch_emulator")
    /\ player_emulator_id' = IF switch_emulator_rc(adl, ctl_arg) < 0
                             THEN player_emulator_id ELSE ctl_arg
    /\ ctl_ret' = "void"
    /\ player_mutex' = FALSE
    /\ ctl_pc' = "done"
    /\ UNCHANGED <<player, player_bank_file, player_sample_rate, channel_map,
                   conditioner, init, rt_vars, ctl_op, ctl_arg, ctl_saved>>

\* the same step returning true whatever the backend answers
player_dynamic_load_bank_mutate_always_true ==
    /\ ctl_pc = "mutate" /\ ctl_op = "load_bank"
    /\ adl' = open_bank_file(adl, ctl_arg)
    /\ ctl_rc' = open_bank_file_rc(adl, ctl_arg)
    /\ last_call' = Call("ctl", "open_bank_file")
    /\ ctl_trace' = Append(ctl_trace, "open_bank_file")
    /\ player_bank_file' = IF open_bank_file_rc(adl, ctl_arg) < 0
                           THEN player_bank_file ELSE ctl_arg
    /\ ctl_ret' = "true"
    /\ player_mutex' = FALSE
    /\ ctl_pc' = "done"
    /\ UNCHANGED <<player, player_sample_rate, player_emulator_id, channel_map,
                   conditioner, init, rt_vars, ctl_op, ctl_arg, ctl_saved>>

\* lines 352-357: load the bank, store the path and return true when the
\* backend accepted it, return false otherwise; the lock_guard unlocks
player_dynamic_load_bank_mutate ==
    /\ ctl_pc = "mutate" /\ ctl_op = "load_bank"
    /\ adl' = open_bank_file(adl, ctl_arg)
    /\ ctl_rc' = open_bank_file_rc(adl, ctl_arg)
    /\ last_call' = Call("ctl", "open_bank_file")
    /\ ctl_trace' = Append(ctl_trace, "open_bank_file")
    /\ player_bank_file' = IF open_bank_file_rc(adl, ctl_arg) < 0
                           THEN player_bank_file ELSE ctl_arg
    /\ ctl_ret' = IF open_bank_file_rc(adl, ctl_arg) < 0 THEN "false" ELSE "true"
    /\ player_mutex' = FALSE
    /\ ctl_pc' = "done"
    /\ UNCHANGED <<player, player_sample_rate, player_emulator_id, channel_map,
                   conditioner, init, rt_vars, ctl_op, ctl_arg, ctl_saved>>

\* the player_dynamic operation returns to the control thread's caller
dynamic_return ==
    /\ ctl_pc = "done"
    /\ ctl_pc' = "idle" /\ ctl_op' = "none" /\ ctl_arg' = 0
    /\ ctl_trace' = <<>> /\ ctl_rc' = 0 /\ ctl_ret' = "pending"
    /\ ctl_saved' = [emulator_id |-> player_emulator_id,
                     bank_file |-> player_bank_file]
    /\ UNCHANGED <<registry, player_mutex, channel_map, conditioner, backend,
                   init, rt_vars>>

\* ------- introspection and enumeration (lines 292-312, 359-371, 436) ---

\* Traits::emulator_name: the name of the instance's selected emulator
emulator_name(h) == <<"emulator", h.emulator>>
\* Traits::get_num_chips
get_num_chips(h) == h.nchips

\* a query of the control thread returns value v: no lock, no write
introspect(op, v) ==
    /\ ctl_pc = "idle"
    /\ ctl_op' = op /\ ctl_ret' = v
    /\ ctl_pc' = "read"
    /\ UNCHANGED <<registry, player_mutex, channel_map, conditioner, backend,
                   init, rt_vars, ctl_arg, ctl_trace, ctl_rc, ctl_saved>>

\* lines 292-301
generic_player_emulator_name ==
    player = "handle" /\ introspect("emulator_name", emulator_name(adl))
\* lines 303-312
generic_player_chip_count ==
    player = "handle" /\ introspect("chip_count", get_num_chips(adl))
\* lines 436-440
player_emulator == introspect("emulator", player_emulator_id)

\* the loop of lines 367-368 on instance h from id i on
RECURSIVE enumerate_loop(_, _, _)
enumerate_loop(h, i, names) ==
    IF switch_emulator_rc(h, i) = 0
    THEN LET h1 == switch_emulator(h, i)
         IN  enumerate_loop(h1, i + 1, Append(names, emulator_name(h1)))
    ELSE names

\* the enumeration walking the active instance instead of one of its own
generic_enumerate_emulators_on_active ==
    /\ ctl_pc = "idle"
    /\ LET names == enumerate_loop(adl, 0, <<>>) IN
        /\ ctl_ret' = names
        /\ adl' = IF names = <<>> THEN adl
                  ELSE [adl EXCEPT !.emulator = Len(names) - 1]
    /\ last_call' = Call("ctl", "switch_emulator")
    /\ ctl_op' = "enumerate_emulators"
    /\ ctl_trace' = <<>>
    /\ ctl_pc' = "read"
    /\ UNCHANGED <<registry, player_mutex, channel_map, conditioner, init,
                   rt_vars, ctl_arg, ctl_rc, ctl_saved>>

\* lines 359-371: an instance of its own (line 365), the loop, the close
\* (line 369); ctl_trace keeps the instance's creation and its closing
generic_enumerate_emulators ==
    /\ ctl_pc = "idle"
    /\ ctl_ret' = enumerate_loop(Traits_init, 0, <<>>)
    /\ ctl_op' = "enumerate_emulators"
    /\ ctl_trace' = <<"init", "close">>
    /\ ctl_pc' = "read"
    /\ UNCHANGED <<registry, player_mutex, channel_map, conditioner, backend,
                   init, rt_vars, ctl_arg, ctl_rc, ctl_saved>>

\* the query returns to the control thread's caller
introspect_return ==
    /\ ctl_pc = "read"
    /\ ctl_pc' = "idle" /\ ctl_op' = "none" /\ ctl_ret' = "pending"
    /\ ctl_trace' = <<>>
    /\ UNCHANGED <<registry, player_mutex, channel_map, conditioner, backend,
                   init, rt_vars, ctl_arg, ctl_rc, ctl_saved>>

\* --------------------------- specifications ---------------------------

\* arguments the control thread passes
ChipArgs == 0 .. MaxChips + 1
EmulatorArgs == 0 .. NumEmulators
BankFiles == {"good.wopl", "bad.wopl"}

\* the real-time thread's steps inside a call
RtStep ==
    \/ play_midi_try_lock
    \/ play_midi_dispatch
    \/ generate_outputs_try_lock
    \/ generate_outputs_render({0})
    \/ generate_outputs_process
    \/ rt_return

\* both threads after startup: the real-time thread plays a few messages
\* and renders silent blocks while the control thread reconfigures
Next ==
    \/ play_midi_call(FewMessages)
    \/ generate_outputs_call({1}, {1}, {1})
    \/ play_midi_try_lock
    \/ play_midi_dispatch
    \/ generate_outputs_try_lock
    \/ generate_outputs_render({0})
    \/ generate_outputs_process
    \/ rt_return
    \/ player_dynamic_set_chip_count_call(ChipArgs)
    \/ player_dynamic_set_emulator_call(EmulatorArgs)
    \/ player_dynamic_load_bank_call(BankFiles)
    \/ dynamic_lock
    \/ dynamic_panic
    \/ player_dynamic_set_chip_count_mutate
    \/ player_dynamic_set_emulator_mutate
    \/ player_dynamic_load_bank_mutate
    \/ dynamic_return
    \/ generic_player_emulator_name
    \/ generic_player_chip_count
    \/ player_emulator
    \/ generic_enumerate_emulators
    \/ introspect_return

Spec == Init /\ [][Next]_vars

\* the decoder on every message, with one reconfiguration to contend with
NextMidi ==
    \/ play_midi_call(AllMessages)
    \/ play_midi_try_lock
    \/ play_midi_dispatch
    \/ rt_return
    \/ player_dynamic_set_chip_count_call({1})
    \/ dynamic_lock
    \/ dynamic_panic
    \/ player_dynamic_set_chip_count_mutate
    \/ dynamic_return

SpecMidi == Init /\ [][NextMidi]_vars

\* the block generator on every frame count and stride, on buffers holding
\* stale samples and a backend rendering a constant signal, with one
\* reconfiguration to contend with
NextAudio ==
    \/ generate_outputs_call(0 .. MaxFrames, 1 .. MaxStride, Samples)
    \/ generate_outputs_try_lock
    \/ generate_outputs_render({1})
    \/ generate_outputs_process
    \/ rt_return
    \/ player_dynamic_set_chip_count_call({1})
    \/ dynamic_lock
    \/ dynamic_panic
    \/ player_dynamic_set_chip_count_mutate
    \/ dynamic_return

SpecAudio == Init /\ [][NextAudio]_vars

\* the emulator list asked for before, during and after startup, with note
\* messages played and the emulator switched once the player runs
NextEnum ==
    \/ generic_initialize_player({44100})
    \/ generic_enumerate_emulators
    \/ introspect_return
    \/ init.status = "ok" /\ play_midi_call({<<144, 64, 127>>})
    \/ play_midi_try_lock
    \/ play_midi_dispatch
    \/ rt_return
    \/ init.status = "ok" /\ player_dynamic_set_emulator_call(EmulatorArgs)
    \/ dynamic_lock
    \/ dynamic_panic
    \/ player_dynamic_set_emulator_mutate
    \/ dynamic_return

\* one message of every status nibble from 0x8 on, on the last channel,
\* and the empty one
KindMessages == {<<16 * h + 15, 200, 64>> : h \in 8 .. 15} \cup {<<>>}

\* every operation that runs once the player does: all message kinds, block
\* generation, the three reconfigurations and the queries
NextMap ==
    \/ play_midi_call(KindMessages)
    \/ generate_outputs_call({0, 1}, {1}, {1})
    \/ play_midi_try_lock
    \/ play_midi_dispatch
    \/ generate_outputs_try_lock
    \/ generate_outputs_render({0})
    \/ generate_outputs_process
    \/ rt_return
    \/ player_dynamic_set_chip_count_call({1})
    \/ player_dynamic_set_emulator_call({1})
    \/ player_dynamic_load_bank_call({"good.wopl"})
    \/ dynamic_lock
    \/ dynamic_panic
    \/ player_dynamic_set_chip_count_mutate
    \/ player_dynamic_set_emulator_mutate
    \/ player_dynamic_load_bank_mutate
    \/ dynamic_return
    \/ generic_player_emulator_name
    \/ generic_player_chip_count
    \/ player_emulator
    \/ generic_enumerate_emulators
    \/ introspect_return

SpecMap == Init /\ [][NextMap]_vars

SpecEnum == Boot /\ [][NextEnum]_vars

\* both threads with the scheduling the liveness of the control thread
\* rests on.  The real-time thread may call or not at any time; a call it
\* made runs to its return (its steps never wait).  A step of the control
\* thread inside its locked section is taken once it is possible.  The
\* lock_guard is strongly fair: a control thread waiting on a mutex that
\* is free again and again gets it at last.
NextLive ==
    \/ play_midi_call({<<>>, <<144, 64, 127>>})
    \/ generate_outputs_call({1}, {1}, {1})
    \/ play_midi_try_lock
    \/ play_midi_dispatch
    \/ generate_outputs_try_lock
    \/ generate_outputs_render({0})
    \/ generate_outputs_process
    \/ rt_return
    \/ player_dynamic_set_chip_count_call({1})
    \/ player_dynamic_set_emulator_call({1, NumEmulators})
    \/ player_dynamic_load_bank_call(BankFiles)
    \/ dynamic_lock
    \/ dynamic_panic
    \/ player_dynamic_set_chip_count_mutate
    \/ player_dynamic_set_emulator_mutate
    \/ player_dynamic_load_bank_mutate
    \/ dynamic_return

CtlSectionStep ==
    \/ dynamic_panic
    \/ player_dynamic_set_chip_count_mutate
    \/ player_dynamic_set_emulator_mutate
    \/ player_dynamic_load_bank_mutate
    \/ dynamic_return

Fairness ==
    /\ WF_vars(RtStep)
    /\ SF_vars(dynamic_lock)
    /\ WF_vars(CtlSectionStep)

SpecLive == Init /\ [][NextLive]_vars /\ Fairness

\* startup: initialize_player on every argument
NextBoot == generic_initialize_player(SampleRates)

SpecBoot == Boot /\ [][NextBoot]_vars

\* ------------------------------ properties ----------------------------

\* the real-time thread is between its lock and its unlock
RtInSection == rt_pc \in {"pm_decode", "go_render"}
\* the control thread is between its lock and its unlock
CtlInSection == ctl_pc \in {"panic", "mutate"}

\* C1: at most one operation is inside its token-holding section: never the
\* real-time thread (play_midi's dispatch, generate_outputs' render) and a
\* dynamic reconfiguration together, and whoever is inside has the mutex
\* locked.
C1_AtMostOneHolder ==
    /\ ~(RtInSection /\ CtlInSection)
    /\ (RtInSection \/ CtlInSection) => player_mutex

\* C1's case: the real-time thread holds the token while a reconfiguration
\* waits for it.
C1_Witness == RtInSection /\ ctl_pc = "lock" /\ player_mutex

\* C2: wherever the real-time thread stands inside a call, and whatever
\* the state of the mutex, its next step can be taken: no step of
\* play_midi or generate_outputs waits for the control thread.
C2_RealTimeNeverWaits == (rt_pc # "idle") => ENABLED RtStep

\* C2's case: the real-time thread is at its try-lock while a
\* reconfiguration holds the mutex.
C2_Witness == rt_pc \in {"pm_lock", "go_lock"} /\ CtlInSection

\* C3: when generate_outputs with n > 0 frames did not get the mutex, then
\* as it returns sample i * stride of the left and of the right buffer is
\* zero for every frame i < n.
C3_SilenceOnContention ==
    (rt_pc = "go_done" /\ nframes > 0 /\ ~rt_owns) =>
        \A i \in 0 .. nframes - 1 : left[i * stride] = 0 /\ right[i * stride] = 0

\* C3's case: a contended call on the largest block and stride, whose
\* buffers held non-zero samples (a slot between two frames still does).
C3_Witness ==
    /\ rt_pc = "go_done" /\ ~rt_owns
    /\ nframes = MaxFrames /\ stride = MaxStride /\ stride > 1
    /\ left[1] # 0 /\ right[1] # 0 /\ left[0] = 0

\* C4: when play_midi did not get the mutex, the call has invoked no
\* backend event operation and the channel program map is as it was when
\* the call started, whatever the message.
C4_DropOnContention ==
    (rt_pc = "pm_done" /\ ~rt_owns) =>
        /\ rt_calls = <<>>
        /\ channel_map = map0

\* C4's case: a Program-Change that would have changed the map was dropped
\* while the reconfiguration still holds the mutex.
C4_Witness ==
    /\ rt_pc = "pm_done" /\ ~rt_owns /\ CtlInSection
    /\ Len(msg) >= 2 /\ msg[1] \div 16 = 12
    /\ channel_map[msg[1] % 16] # msg[2] % 128

\* the backend mutation of each dynamic reconfiguration
MutationOf(op) ==
    CASE op = "set_chip_count" -> "set_num_chips"
      [] op = "set_emulator" -> "switch_emulator"
      [] op = "load_bank" -> "open_bank_file"

\* C5: a dynamic reconfiguration locks the mutex, then invokes panic, then
\* the backend mutation, and nothing else; the mutex is locked from the
\* lock to the mutation, the real-time thread is in no token-holding
\* section meanwhile, and when the mutation is invoked the backend's last
\* call is still the reconfiguration's panic.
C5_PanicThenMutate ==
    /\ ctl_pc = "panic" => ctl_trace = <<"lock">>
    /\ ctl_pc = "mutate" =>
        /\ ctl_trace = <<"lock", "panic">>
        /\ last_call = Call("ctl", "panic")
    /\ ctl_pc = "done" => ctl_trace = <<"lock", "panic", MutationOf(ctl_op)>>
    /\ CtlInSection => player_mutex /\ ~RtInSection

\* C5's case: between the panic and the mutation the real-time thread
\* called play_midi with a note-on, and was turned away.
C5_Witness ==
    /\ ctl_pc = "mutate"
    /\ rt_pc = "pm_done" /\ ~rt_owns /\ msg = <<144, 64, 127>>

\* C6: a step changes the registry's emulator id only if it is a
\* set-emulator whose backend switch returned success, and the bank path
\* only if it is a load-bank whose backend load returned success; a
\* reconfiguration whose backend operation failed ends with the emulator id
\* and the bank path it started with.
C6_CommitOnlyOnSuccess ==
    [][ /\ player_emulator_id' # player_emulator_id =>
            /\ ctl_op = "set_emulator" /\ ctl_pc' = "done" /\ ctl_rc' >= 0
            /\ player_emulator_id' = adl'.emulator
        /\ player_bank_file' # player_bank_file =>
            /\ ctl_op = "load_bank" /\ ctl_pc' = "done" /\ ctl_rc' >= 0
            /\ player_bank_file' = adl'.bank
        /\ (ctl_pc' = "done" /\ ctl_rc' < 0) =>
            /\ player_emulator_id' = ctl_saved'.emulator_id
            /\ player_bank_file' = ctl_saved'.bank_file
      ]_vars

\* C6's case: a set-emulator with an out-of-range id failed after an
\* earlier one had succeeded, and the earlier id is still stored.
C6_Witness ==
    /\ ctl_pc = "done" /\ ctl_op = "set_emulator" /\ ctl_rc < 0
    /\ ctl_arg >= NumEmulators
    /\ player_emulator_id = 1 /\ adl.emulator = 1

\* C7 as stated: a dynamic reconfiguration whose backend operation failed
\* returns a failure signal: a value, and not the one a successful call
\* returns.
C7_FailureReported ==
    (ctl_pc = "done" /\ ctl_rc < 0) => ctl_ret \notin {"void", "true"}

\* C7, amended: load-bank returns false when the backend load failed and
\* true when it succeeded; set-emulator and set-chip-count return nothing,
\* whether the backend operation succeeded or failed.
C7_OnlyLoadBankReports ==
    ctl_pc = "done" =>
        /\ ctl_op = "load_bank" =>
            ctl_ret = (IF ctl_rc < 0 THEN "false" ELSE "true")
        /\ ctl_op \in {"set_emulator", "set_chip_count"} => ctl_ret = "void"

\* C7's case: a load-bank of an unreadable file has returned false.
C7_Witness ==
    /\ ctl_pc = "done" /\ ctl_op = "load_bank" /\ ctl_arg = "bad.wopl"
    /\ ctl_rc < 0 /\ ctl_ret = "false"

\* the registry as a record
Registry ==
    [player |-> player, bank_file |-> player_bank_file,
     sample_rate |-> player_sample_rate, emulator_id |-> player_emulator_id]

\* C8 as stated: when initialize_player fails, the player handle, the
\* sample rate, the emulator id and the bank path are as before the call.
C8_NoPartialState == init.status = "error" => Registry = BootRegistry

\* C8, amended: initialize_player fails by throwing.  The registry is as
\* before the call only when engine instantiation failed.  After any later
\* failure the handle and the sample rate are those of the new instance;
\* the emulator id is the requested one when an emulator was requested and
\* the failure came after its selection; the bank path is the requested
\* one when a bank was requested and the failure came after its load.
C8_PartialStateOnLateFailure ==
    init.status = "error" =>
        /\ init.threw \in {"init", "switch_emulator", "open_bank_file",
                           "set_num_chips"}
        /\ init.threw = "init" => Registry = BootRegistry
        /\ init.threw # "init" =>
            /\ player = "handle"
            /\ player_sample_rate = init.args.sample_rate
            /\ player_emulator_id =
                 IF init.threw # "switch_emulator" /\ init.args.emulator >= 0
                 THEN init.args.emulator ELSE BootRegistry.emulator_id
            /\ player_bank_file =
                 IF init.threw = "set_num_chips" /\ init.args.bankfile # "nullptr"
                 THEN init.args.bankfile ELSE BootRegistry.bank_file

\* C8's case: the chip count was refused after an emulator and a bank had
\* been set.
C8_Witness ==
    /\ init.status = "error" /\ init.threw = "set_num_chips"
    /\ player = "handle" /\ player_emulator_id = 1
    /\ player_bank_file = "good.wopl"

\* a channel message with the length its kind requires: status high
\* nibble 0x8..0xE, two bytes for Program-Change and Channel-Aftertouch,
\* three for the others
WellFormed(m) ==
    /\ Len(m) >= 1
    /\ m[1] \div 16 \in 8 .. 14
    /\ Len(m) >= (IF m[1] \div 16 \in {12, 13} THEN 2 ELSE 3)

\* the event a well-formed message stands for, read off its status high
\* nibble alone, with the data bytes the operation takes (a program number
\* is the low 7 bits of its byte)
NibbleEvent(m) ==
    LET ch == m[1] % 16
        hi == m[1] \div 16
    IN  CASE hi = 8 -> <<"rt_note_off", ch, m[2]>>
          [] hi = 9 -> <<"rt_note_on", ch, m[2], m[3]>>
          [] hi = 10 -> <<"rt_note_aftertouch", ch, m[2], m[3]>>
          [] hi = 11 -> <<"rt_controller_change", ch, m[2], m[3]>>
          [] hi = 12 -> <<"rt_program_change", ch, m[2] % 128>>
          [] hi = 13 -> <<"rt_channel_aftertouch", ch, m[2]>>
          [] hi = 14 -> <<"rt_pitchbend_ml", ch, m[3], m[2]>>

\* the same, with a Note-On of velocity 0 standing for a note-off
ExpectedEvent(m) ==
    LET ch == m[1] % 16
        hi == m[1] \div 16
    IN  IF hi = 9 /\ m[3] = 0 THEN <<"rt_note_off", ch, m[2]>>
        ELSE NibbleEvent(m)

NoteOnNonZero(m) == Len(m) >= 3 /\ m[1] \div 16 = 9 /\ m[3] # 0

\* C9 as stated: with the mutex acquired, a well-formed channel message
\* causes exactly one backend event, of the kind its status high nibble
\* selects, on channel status & 0x0F, carrying the data bytes (pitch bend:
\* second data byte first); a Note-On with non-zero velocity leaves the
\* channel program map unchanged.
C9_OneEventByNibble ==
    (rt_pc = "pm_done" /\ rt_owns /\ WellFormed(msg)) =>
        /\ rt_calls = <<NibbleEvent(msg)>>
        /\ NoteOnNonZero(msg) => channel_map = map0

\* C9, amended: the same, except that a Note-On with velocity 0 causes one
\* note-off event for its channel and key instead of a note-on.
C9_OneEventPerMessage ==
    (rt_pc = "pm_done" /\ rt_owns /\ WellFormed(msg)) =>
        /\ rt_calls = <<ExpectedEvent(msg)>>
        /\ rt_calls[1][2] = msg[1] % 16
        /\ NoteOnNonZero(msg) =>
            /\ rt_calls = <<<<"rt_note_on", msg[1] % 16, msg[2], msg[3]>>>>
            /\ channel_map = map0

\* C9's case: the note-on of the scenario, 0x90 0x40 with a non-zero
\* velocity, was dispatched with the mutex free.
C9_Witness ==
    /\ rt_pc = "pm_done" /\ rt_owns
    /\ Len(msg) = 3 /\ msg[1] = 144 /\ msg[2] = 64 /\ msg[3] # 0
    /\ Len(rt_calls) = 1

NoteOnZero(m) == Len(m) >= 3 /\ m[1] \div 16 = 9 /\ m[3] = 0

\* the Note-Off messages for a channel and a key, of every velocity
NoteOffs(ch, key) == {<<128 + ch, key, v>> : v \in DataBytes}

\* C10: play_midi on a Note-On with velocity 0 invokes the backend
\* operations, and leaves the channel program map, that play_midi on a
\* Note-Off for the same channel and key would have from the same map: one
\* note-off event and no note-on.
C10_NoteOnZeroIsNoteOff ==
    (rt_pc = "pm_done" /\ rt_owns /\ NoteOnZero(msg)) =>
        /\ \A off \in NoteOffs(msg[1] % 16, msg[2]) :
            /\ rt_calls = play_midi_decode(off, map0).calls
            /\ channel_map = play_midi_decode(off, map0).map
        /\ rt_calls = <<<<"rt_note_off", msg[1] % 16, msg[2]>>>>

\* C10's case: a Note-On with velocity 0 on the last channel was
\* dispatched with the mutex free.
C10_Witness ==
    /\ rt_pc = "pm_done" /\ rt_owns /\ NoteOnZero(msg)
    /\ msg[1] % 16 = 15 /\ msg[2] = 64
    /\ rt_calls # <<>>

ProgramChange(m) == Len(m) >= 2 /\ m[1] \div 16 = 12

\* C11: once play_midi has processed a Program-Change on channel c with
\* program byte p, the channel program map entry of c is p & 0x7F, and the
\* backend has received the program-change event for c.
C11_ProgramRecorded ==
    (rt_pc = "pm_done" /\ rt_owns /\ ProgramChange(msg)) =>
        /\ channel_map[msg[1] % 16] = msg[2] % 128
        /\ channel_map[msg[1] % 16] < 128
        /\ Len(rt_calls) = 1
        /\ rt_calls[1][1] = "rt_program_change"
        /\ rt_calls[1][2] = msg[1] % 16

\* C11's case: a Program-Change on the last channel whose program byte has
\* the high bit set was processed.
C11_Witness ==
    /\ rt_pc = "pm_done" /\ rt_owns /\ ProgramChange(msg)
    /\ msg[1] % 16 = 15 /\ msg[2] >= 128
    /\ channel_map[15] = msg[2] - 128

SystemMessage(m) == Len(m) >= 1 /\ m[1] \div 16 = 15

\* C12: a play_midi call on a message whose status high nibble is 0xF, of
\* any length and data, has invoked no backend operation and left the
\* channel program map as it was.
C12_SystemIgnored ==
    (rt_pc = "pm_done" /\ SystemMessage(msg)) =>
        rt_calls = <<>> /\ channel_map = map0

\* C12's case: a three-byte 0xF message on the last channel went through
\* the decoder with the mutex owned.
C12_Witness ==
    /\ rt_pc = "pm_done" /\ rt_owns /\ SystemMessage(msg)
    /\ Len(msg) = 3 /\ msg[1] = 255 /\ msg[2] # 0

\* an empty message, a status high nibble below 0x8, or a channel message
\* shorter than its kind requires
Malformed(m) ==
    \/ Len(m) = 0
    \/ Len(m) >= 1 /\ m[1] \div 16 < 8
    \/ Len(m) >= 1 /\ m[1] \div 16 \in 8 .. 14 /\ ~WellFormed(m)

\* C13: a play_midi call on a malformed message returns having invoked no
\* backend operation and left the channel program map as it was.
C13_MalformedDiscarded ==
    (rt_pc = "pm_done" /\ Malformed(msg)) =>
        rt_calls = <<>> /\ channel_map = map0

\* C13's case: a Note-On cut after its key went through the decoder with
\* the mutex owned.
C13_Witness ==
    /\ rt_pc = "pm_done" /\ rt_owns /\ Malformed(msg)
    /\ Len(msg) = 2 /\ msg[1] \div 16 = 9 /\ rt_calls = <<>>

\* C14: while generate_outputs post-processes a block it rendered, the
\* real-time thread no longer holds the mutex (a locked mutex is the
\* control thread's), and a reconfiguration waiting for the mutex can
\* lock it.
C14_UnlockedBeforePostProcessing ==
    (rt_pc = "go_post") =>
        /\ rt_owns
        /\ player_mutex => CtlInSection
        /\ (ctl_pc = "lock") => ENABLED dynamic_lock

\* C14's case: a reconfiguration is inside its locked section while the
\* rendered block awaits its post-processing.
C14_Witness == rt_pc = "go_post" /\ rt_owns /\ CtlInSection /\ player_mutex

\* no call holds the mutex: each thread is outside its calls or at the
\* return of one
NoCallInProgress ==
    /\ rt_pc \in {"idle", "pm_done", "go_done"}
    /\ ctl_pc \in {"idle", "done", "read"}

\* C17: whenever neither play_midi, generate_outputs nor a dynamic
\* reconfiguration is between its lock and its return, the mutex is free.
C17_FreeWhenQuiescent == NoCallInProgress => ~player_mutex

\* C17's case: play_midi returned early on an empty message it had locked
\* the mutex for, and a reconfiguration returned after its backend
\* operation failed.
C17_Witness ==
    /\ rt_pc = "pm_done" /\ rt_owns /\ msg = <<>>
    /\ ctl_pc = "done" /\ ctl_rc < 0
    /\ ~player_mutex

\* C16: a step changes the channel program map only when it is the
\* dispatch of a play_midi call that owns the mutex and decodes a
\* Program-Change, and then only the entry of the message's channel
\* changes; every other step of every operation leaves all 16 entries as
\* they were.
C16_MapWrittenByProgramChangeOnly ==
    [][channel_map' # channel_map =>
        /\ rt_pc = "pm_decode" /\ rt_pc' = "pm_done" /\ rt_owns
        /\ ProgramChange(msg)
        /\ \A c \in Channels \ {msg[1] % 16} :
                channel_map'[c] = channel_map[c]]_vars

\* C16's case: a Program-Change on the last channel changed that entry of
\* the map and no other, and a query of the control thread ran meanwhile.
C16_Witness ==
    /\ rt_pc = "pm_done" /\ ProgramChange(msg) /\ msg[1] % 16 = 15
    /\ channel_map[15] # map0[15]
    /\ \A c \in Channels \ {15} : channel_map[c] = 0
    /\ ctl_pc = "read"

\* the control thread's step is a call of enumerate_emulators
EnumerateStep == ctl_pc = "idle" /\ ctl_op' = "enumerate_emulators"

\* C19: a call of enumerate_emulators, before or after initialize_player,
\* creates and closes an instance of its own, returns the names of the
\* emulators 0, 1, 2, ... up to the first id the backend rejects, and
\* leaves the active handle, the emulator it has selected, the registry's
\* emulator id and the mutex as they were.
C19_EnumerateOnOwnInstance ==
    [][EnumerateStep =>
        /\ ctl_trace' = <<"init", "close">>
        /\ \A i \in 1 .. Len(ctl_ret') :
                /\ switch_emulator_rc(Traits_init, i - 1) = 0
                /\ ctl_ret'[i] = <<"emulator", i - 1>>
        /\ switch_emulator_rc(Traits_init, Len(ctl_ret')) # 0
        /\ UNCHANGED <<player, adl, player_emulator_id, player_mutex>>]_vars

\* C19's case: the emulators were enumerated before initialize_player
\* created the active player.
C19_Witness ==
    /\ player = "nullptr" /\ init.status = "none"
    /\ ctl_pc = "read" /\ ctl_op = "enumerate_emulators"
    /\ Len(ctl_ret) = NumEmulators
    /\ adl.emulator = 0

\* C18: the step by which generate_outputs returns for a frame count of 0
\* or for a mutex it could not lock invokes no backend render and leaves
\* the DC filters, the level monitors, the level readout and the load
\* ratio as they were; a step changes any of these only when it is the
\* post-processing of a call that locked the mutex and rendered a block,
\* and the backend renders only for a call that locked the mutex.
C18_ConditionerOnlyAfterRender ==
    [][/\ (rt_pc \in {"idle", "go_lock"} /\ rt_pc' = "go_done") =>
            /\ nframes' <= 0 \/ ~rt_owns'
            /\ UNCHANGED <<conditioner, backend>>
       /\ (conditioner' # conditioner) =>
            /\ rt_pc = "go_post" /\ rt_owns /\ nframes > 0
            /\ rt_pc' = "go_done"
       /\ (rt_pc' = "go_post" /\ rt_pc # "go_post") =>
            /\ rt_pc = "go_render" /\ rt_owns
            /\ last_call' = Call("rt", "generate_format")]_vars

\* C18's case: a block was rendered and post-processed before, and a later
\* call of generate_outputs found the mutex taken by a reconfiguration: it
\* returns with the filter state and the level readout the earlier block
\* left.
C18_Witness ==
    /\ rt_pc = "go_done" /\ ~rt_owns /\ nframes > 0 /\ CtlInSection
    /\ dcfilter[0].x1 = 1 /\ lvcurrent[0] = 1

=============================================================================
